---- MODULE Spec2Model ----
(***************************************************************************)
(* poc-pg-worker: the LISTEN/NOTIFY dispatch engine.                       *)
(*                                                                         *)
(* Two execution units (one per channel) each run                          *)
(*   waitForConnection -> Acquire -> LISTEN -> for { select / pull /       *)
(*   processor }                                                           *)
(* against a shared store holding the tasks, notifications and             *)
(* subscriptions tables.  Every store round-trip, every transport call and *)
(* every branch of the worker loop is one action.  Variables marked        *)
(* "history" record what the code did; the code never reads them.          *)
(***************************************************************************)
EXTENDS Integers, Sequences, FiniteSets, TLC

\* ------------------------------------------------------------------------
\* Program constant and model bounds
\* ------------------------------------------------------------------------
maxRetries == 5

MaxTasks == 1
MaxJobs == 1
MaxSubs == 2
MaxNoise == 1

\* ------------------------------------------------------------------------
\* Static structure
\* ------------------------------------------------------------------------
\* the two workers run starts, and a second subscriber instance on the
\* notification channel (a second deployed copy of the service)
Units == {"taskWorker", "notificationWorker"}

Workers == Units \cup {"notificationWorker2"}

channelName(w) == IF w = "taskWorker" THEN "tasks_channel" ELSE "notifications_channel"

Channels == {"tasks_channel", "notifications_channel"}

\* the table a channel's processor updates
TableOf(ch) == IF ch = "tasks_channel" THEN "tasks" ELSE "notifications"

Tables == {"tasks", "notifications"}

MaxRows(t) == IF t = "tasks" THEN MaxTasks ELSE MaxJobs

MaxRowsAny == IF MaxTasks > MaxJobs THEN MaxTasks ELSE MaxJobs

RowIds == 1..MaxRowsAny

Status == {"pending", "processing", "completed", "failed"}

Terminal == {"completed", "failed"}

\* the address of the k-th registered push subscription
Endpoints == 1..MaxSubs

\* ------------------------------------------------------------------------
\* Event payloads.  A payload is either text that is not JSON, or a JSON
\* object whose "id" member is a string, a number, or missing.
\* ------------------------------------------------------------------------
JsonPayload(kind, id) == [fmt |-> "json", idType |-> kind, id |-> id]

NotJson == [fmt |-> "text", idType |-> "none", id |-> 0]

\* row_to_json of a tasks row: id is VARCHAR, hence a JSON string
TaskPayload(id) == JsonPayload("string", id)

\* row_to_json of a notifications row: id is SERIAL, hence a JSON number
NotificationPayload(id) == JsonPayload("number", id)

\* json.Unmarshal into `task` (ID string): a number for "id" is an
\* UnmarshalTypeError, a missing "id" leaves the zero value "" (no row).
DecodeTask(p) ==
    IF p.fmt # "json" THEN [ok |-> FALSE, id |-> 0]
    ELSE IF p.idType = "number" THEN [ok |-> FALSE, id |-> 0]
    ELSE IF p.idType = "string" THEN [ok |-> TRUE, id |-> p.id]
    ELSE [ok |-> TRUE, id |-> 0]

\* json.Unmarshal into `notification` (ID int): a string for "id" is an
\* UnmarshalTypeError, a missing "id" leaves the zero value 0 (no row).
DecodeNotification(p) ==
    IF p.fmt # "json" THEN [ok |-> FALSE, id |-> 0]
    ELSE IF p.idType = "string" THEN [ok |-> FALSE, id |-> 0]
    ELSE IF p.idType = "number" THEN [ok |-> TRUE, id |-> p.id]
    ELSE [ok |-> TRUE, id |-> 0]

Decode(ch, p) == IF ch = "tasks_channel" THEN DecodeTask(p) ELSE DecodeNotification(p)

\* payloads a foreign NOTIFY puts on a channel: text that is not JSON, and
\* an object of the other channel's shape
RawPayloads(ch) ==
    {NotJson, IF ch = "tasks_channel" THEN NotificationPayload(1) ELSE TaskPayload(1)}

\* ------------------------------------------------------------------------
\* State
\* ------------------------------------------------------------------------
VARIABLES
    started,        \* the execution units this run has started
    ctxDone,        \* the process-wide context is cancelled
    rows,           \* rows[table][id]: status column, or "absent"
    subscriptions,  \* the subscriptions table: sequence of endpoint addresses
    noise,          \* noise[ch]: foreign NOTIFYs and wait errors so far (bounded)
    pc,             \* pc[w]: position of worker w's goroutine
    guard,          \* guard[w]: waitForConnection's loop index and counters
    sub,            \* sub[w]: dedicated connection, LISTEN, pulls
    queue,          \* queue[w]: notifications delivered to w's connection
    proc,           \* proc[w]: locals of the running processor invocation
    log,            \* log[w]: what w wrote to stderr, and run's return
    hist,           \* history: hist[table][id], every status the row has had
    inv             \* history: inv[w], record of the invocation in flight

vars == <<started, ctxDone, rows, subscriptions, noise, pc, guard, sub, queue, proc, log, hist, inv>>

NoProc == [id |-> 0, subs |-> <<>>, idx |-> 0, err |-> "none"]

NoInv ==
    [active |-> FALSE, payload |-> NotJson, decoded |-> FALSE,
     writes |-> <<>>, attempts |-> <<>>, storeErr |-> "none",
     read |-> "none", setAtRead |-> <<>>, reads |-> 0,
     calls |-> <<>>, outs |-> <<>>, cancelled |-> FALSE]

InitStore ==
    /\ ctxDone = FALSE
    /\ rows = [t \in Tables |-> [id \in RowIds |-> "absent"]]
    /\ subscriptions = <<>>
    /\ noise = [ch \in Channels |-> 0]
    /\ pc = [w \in Workers |-> "ping"]
    /\ guard = [w \in Workers |-> [i |-> 0, pings |-> 0, waits |-> 0, exit |-> "none"]]
    /\ sub = [w \in Workers |->
                [conn |-> FALSE, acquires |-> 0, releases |-> 0, listens |-> 0,
                 received |-> 0, invoked |-> 0]]
    /\ queue = [w \in Workers |-> <<>>]
    /\ proc = [w \in Workers |-> NoProc]
    /\ log = [w \in Workers |->
                [result |-> "running", exitFrom |-> "none",
                 workerErr |-> 0, waitErr |-> 0, procErr |-> 0]]
    /\ hist = [t \in Tables |-> [id \in RowIds |-> <<>>]]
    /\ inv = [w \in Workers |-> NoInv]

\* one execution unit examined on its own: the units share no state but
\* ctx, which only Cancel writes, and tables their processors do not share
Init == InitStore /\ \E w \in Units : started = {w}

\* run: both execution units started
InitRun == InitStore /\ started = Units

\* two subscriber instances listening on the notification channel
InitTwo == InitStore /\ started = {"notificationWorker", "notificationWorker2"}

\* ------------------------------------------------------------------------
\* Store access through the pool.  Every pool call takes ctx: puddle's
\* Acquire returns ctx.Err() at once when ctx is already done, so a call
\* issued after cancellation fails; otherwise the store decides.
\* ------------------------------------------------------------------------
ExecOutcomes == IF ctxDone THEN {"ctx"} ELSE {"ok", "db"}

RowExists(t, id) == id \in 1..MaxRows(t) /\ rows[t][id] # "absent"

\* UPDATE <t> SET status = s WHERE id = $1 (zero rows match an unknown id)
UpdateStatus(t, id, s) ==
    IF RowExists(t, id)
    THEN /\ rows' = [rows EXCEPT ![t][id] = s]
         /\ hist' = [hist EXCEPT ![t][id] = Append(@, s)]
    ELSE UNCHANGED <<rows, hist>>

\* mutant: worker returns without the deferred conn.Release
WorkerReturn_NoRelease(w, err) ==
    /\ pc' = [pc EXCEPT ![w] = "done"]
    /\ log' = [log EXCEPT ![w].result = IF err THEN "err" ELSE "nil",
                          ![w].exitFrom = pc[w],
                          ![w].workerErr = IF err THEN @ + 1 ELSE @]
    /\ UNCHANGED sub

\* ------------------------------------------------------------------------
\* run's goroutine wrapper: a non-nil error from the worker is printed as
\* "worker error"; the deferred conn.Release runs if a connection is held.
\* history: exitFrom, the position the worker returned from.
\* ------------------------------------------------------------------------
WorkerReturn(w, err) ==
    /\ pc' = [pc EXCEPT ![w] = "done"]
    /\ log' = [log EXCEPT ![w].result = IF err THEN "err" ELSE "nil",
                          ![w].exitFrom = pc[w],
                          ![w].workerErr = IF err THEN @ + 1 ELSE @]
    /\ sub' = [sub EXCEPT ![w].conn = FALSE,
                          ![w].releases = IF sub[w].conn THEN @ + 1 ELSE @]

\* ------------------------------------------------------------------------
\* waitForConnection
\* ------------------------------------------------------------------------
\* pool.Ping(ctx) at loop index i < maxRetries
waitForConnection_Ping(w) ==
    /\ pc[w] = "ping"
    /\ \E ok \in (IF ctxDone THEN {FALSE} ELSE BOOLEAN) :
         /\ guard' = [guard EXCEPT ![w].pings = @ + 1,
                                   ![w].exit = IF ok THEN "ok" ELSE @]
         /\ pc' = [pc EXCEPT ![w] = IF ok THEN "acquire" ELSE "retry_wait"]
    /\ UNCHANGED <<started, ctxDone, rows, subscriptions, noise, sub, queue, proc, log, hist, inv>>

\* select: case <-ctx.Done(): return ctx.Err(); the worker wraps and returns it
waitForConnection_Cancelled(w) ==
    /\ pc[w] = "retry_wait"
    /\ ctxDone
    /\ guard' = [guard EXCEPT ![w].exit = "cancelled"]
    /\ WorkerReturn(w, TRUE)
    /\ UNCHANGED <<started, ctxDone, rows, subscriptions, noise, queue, proc, hist, inv>>

\* mutant: the loop bound read as i <= maxRetries
waitForConnection_Interval_OffByOne(w) ==
    /\ pc[w] = "retry_wait"
    /\ IF guard[w].i + 1 <= maxRetries
       THEN /\ guard' = [guard EXCEPT ![w].i = @ + 1, ![w].waits = @ + 1]
            /\ pc' = [pc EXCEPT ![w] = "ping"]
            /\ UNCHANGED <<sub, log>>
       ELSE /\ guard' = [guard EXCEPT ![w].i = @ + 1, ![w].waits = @ + 1,
                                      ![w].exit = "exhausted"]
            /\ WorkerReturn(w, TRUE)
    /\ UNCHANGED <<started, ctxDone, rows, subscriptions, noise, queue, proc, hist, inv>>

\* mutant: the guard's failure is fatal to the process (log.Fatal), every
\* goroutine ends with it
waitForConnection_Interval_Fatal(w) ==
    /\ pc[w] = "retry_wait"
    /\ IF guard[w].i + 1 < maxRetries
       THEN /\ guard' = [guard EXCEPT ![w].i = @ + 1, ![w].waits = @ + 1]
            /\ pc' = [pc EXCEPT ![w] = "ping"]
            /\ UNCHANGED <<sub, log>>
       ELSE /\ guard' = [guard EXCEPT ![w].i = @ + 1, ![w].waits = @ + 1,
                                      ![w].exit = "exhausted"]
            /\ pc' = [x \in Workers |->
                        IF x = w THEN "done"
                        ELSE IF x \in started /\ pc[x] # "done" THEN "killed" ELSE pc[x]]
            /\ log' = [log EXCEPT ![w].result = "err", ![w].exitFrom = pc[w],
                                  ![w].workerErr = @ + 1]
            /\ UNCHANGED sub
    /\ UNCHANGED <<started, ctxDone, rows, subscriptions, noise, queue, proc, hist, inv>>

\* select: case <-time.After(retryInterval): i++, and after the last
\* iteration "failed to connect to database after 5 attempts"
waitForConnection_Interval(w) ==
    /\ pc[w] = "retry_wait"
    /\ IF guard[w].i + 1 < maxRetries
       THEN /\ guard' = [guard EXCEPT ![w].i = @ + 1, ![w].waits = @ + 1]
            /\ pc' = [pc EXCEPT ![w] = "ping"]
            /\ UNCHANGED <<sub, log>>
       ELSE /\ guard' = [guard EXCEPT ![w].i = @ + 1, ![w].waits = @ + 1,
                                      ![w].exit = "exhausted"]
            /\ WorkerReturn(w, TRUE)
    /\ UNCHANGED <<started, ctxDone, rows, subscriptions, noise, queue, proc, hist, inv>>

\* ------------------------------------------------------------------------
\* worker: startup
\* ------------------------------------------------------------------------
\* conn, err := pool.Acquire(ctx)
worker_Acquire(w) ==
    /\ pc[w] = "acquire"
    /\ \E o \in ExecOutcomes :
         IF o = "ok"
         THEN /\ sub' = [sub EXCEPT ![w].conn = TRUE, ![w].acquires = @ + 1]
              /\ pc' = [pc EXCEPT ![w] = "listen"]
              /\ UNCHANGED log
         ELSE WorkerReturn(w, TRUE)
    /\ UNCHANGED <<started, ctxDone, rows, subscriptions, noise, guard, queue, proc, hist, inv>>

\* conn.Exec(ctx, "LISTEN <channel>")
worker_Listen(w) ==
    /\ pc[w] = "listen"
    /\ \E o \in ExecOutcomes :
         IF o = "ok"
         THEN /\ sub' = [sub EXCEPT ![w].listens = @ + 1]
              /\ pc' = [pc EXCEPT ![w] = "select"]
              /\ UNCHANGED log
         ELSE WorkerReturn(w, TRUE)
    /\ UNCHANGED <<started, ctxDone, rows, subscriptions, noise, guard, queue, proc, hist, inv>>

\* ------------------------------------------------------------------------
\* worker: the dispatch loop
\* ------------------------------------------------------------------------
\* select { case <-ctx.Done(): return nil; default: ... }
worker_Select(w) ==
    /\ pc[w] = "select"
    /\ IF ctxDone
       THEN WorkerReturn(w, FALSE)
       ELSE /\ pc' = [pc EXCEPT ![w] = "pull"]
            /\ UNCHANGED <<sub, log>>
    /\ UNCHANGED <<started, ctxDone, rows, subscriptions, noise, guard, queue, proc, hist, inv>>

\* mutant: the pull hands over the newest queued notification
worker_PullNotification_Newest(w) ==
    /\ pc[w] = "pull"
    /\ queue[w] # <<>>
    /\ queue' = [queue EXCEPT ![w] = SubSeq(@, 1, Len(@) - 1)]
    /\ sub' = [sub EXCEPT ![w].received = @ + 1]
    /\ inv' = [inv EXCEPT ![w] = [NoInv EXCEPT !.active = TRUE,
                                               !.payload = queue[w][Len(queue[w])]]]
    /\ pc' = [pc EXCEPT ![w] = "call"]
    /\ UNCHANGED <<started, ctxDone, rows, subscriptions, noise, guard, proc, log, hist>>

\* WaitForNotification returns a notification, err == nil
worker_PullNotification(w) ==
    /\ pc[w] = "pull"
    /\ queue[w] # <<>>
    /\ queue' = [queue EXCEPT ![w] = Tail(@)]
    /\ sub' = [sub EXCEPT ![w].received = @ + 1]
    /\ inv' = [inv EXCEPT ![w] = [NoInv EXCEPT !.active = TRUE, !.payload = Head(queue[w])]]
    /\ pc' = [pc EXCEPT ![w] = "call"]
    /\ UNCHANGED <<started, ctxDone, rows, subscriptions, noise, guard, proc, log, hist>>

\* mutant: the wait error is returned without consulting ctx.Err()
worker_PullCancelled_ReturnsError(w) ==
    /\ pc[w] = "pull"
    /\ ctxDone
    /\ WorkerReturn(w, TRUE)
    /\ UNCHANGED <<started, ctxDone, rows, subscriptions, noise, guard, queue, proc, hist, inv>>

\* WaitForNotification returns err and ctx.Err() != nil: return nil
worker_PullCancelled(w) ==
    /\ pc[w] = "pull"
    /\ ctxDone
    /\ WorkerReturn(w, FALSE)
    /\ UNCHANGED <<started, ctxDone, rows, subscriptions, noise, guard, queue, proc, hist, inv>>

\* mutant: the wait error is returned to run
worker_PullError_Returns(w) ==
    /\ pc[w] = "pull"
    /\ ~ctxDone
    /\ noise[channelName(w)] < MaxNoise
    /\ noise' = [noise EXCEPT ![channelName(w)] = @ + 1]
    /\ WorkerReturn(w, TRUE)
    /\ UNCHANGED <<started, ctxDone, rows, subscriptions, guard, queue, proc, hist, inv>>

\* WaitForNotification returns err and ctx.Err() == nil: print, continue
worker_PullError(w) ==
    /\ pc[w] = "pull"
    /\ ~ctxDone
    /\ noise[channelName(w)] < MaxNoise
    /\ noise' = [noise EXCEPT ![channelName(w)] = @ + 1]
    /\ log' = [log EXCEPT ![w].waitErr = @ + 1]
    /\ pc' = [pc EXCEPT ![w] = "select"]
    /\ UNCHANGED <<started, ctxDone, rows, subscriptions, guard, sub, queue, proc, hist, inv>>

\* mutant: a failed notification is handed to the processor again
worker_ProcessorReturned_Retries(w) ==
    /\ pc[w] = "ret"
    /\ log' = [log EXCEPT ![w].procErr = IF proc[w].err # "none" THEN @ + 1 ELSE @]
    /\ pc' = [pc EXCEPT ![w] = IF proc[w].err = "unmarshal" THEN "call" ELSE "select"]
    /\ proc' = [proc EXCEPT ![w] = NoProc]
    /\ inv' = [inv EXCEPT ![w] = IF proc[w].err = "unmarshal"
                                  THEN [NoInv EXCEPT !.active = TRUE, !.payload = inv[w].payload]
                                  ELSE NoInv]
    /\ log[w].procErr < 2
    /\ UNCHANGED <<started, ctxDone, rows, subscriptions, noise, guard, sub, queue, hist>>

\* processor(ctx, notification) has returned: print its error, next pull
worker_ProcessorReturned(w) ==
    /\ pc[w] = "ret"
    /\ log' = [log EXCEPT ![w].procErr = IF proc[w].err # "none" THEN @ + 1 ELSE @]
    /\ pc' = [pc EXCEPT ![w] = "select"]
    /\ proc' = [proc EXCEPT ![w] = NoProc]
    /\ inv' = [inv EXCEPT ![w] = NoInv]
    /\ UNCHANGED <<started, ctxDone, rows, subscriptions, noise, guard, sub, queue, hist>>

\* ------------------------------------------------------------------------
\* Processor steps shared in shape by both processors
\* ------------------------------------------------------------------------
\* the processor returns err to the dispatch loop
Return(w, err) ==
    /\ pc' = [pc EXCEPT ![w] = "ret"]
    /\ proc' = [proc EXCEPT ![w].err = err]

\* pool.Exec(ctx, "UPDATE <table> SET status = s WHERE id = $1", id) with
\* outcome o; history: the attempt, and the write when it took place
ExecUpdate(w, s, o) ==
    /\ IF o = "ok"
       THEN UpdateStatus(TableOf(channelName(w)), proc[w].id, s)
       ELSE UNCHANGED <<rows, hist>>
    /\ inv' = [inv EXCEPT ![w].attempts = Append(@, s),
                          ![w].writes = IF o = "ok" THEN Append(@, s) ELSE @,
                          ![w].storeErr = IF o = "ok" THEN @ ELSE o]

\* ------------------------------------------------------------------------
\* processTask
\* ------------------------------------------------------------------------
\* mutant: the Unmarshal error is dropped and the zero-valued task is used
processTask_Unmarshal_IgnoresError(w) ==
    /\ pc[w] = "call"
    /\ channelName(w) = "tasks_channel"
    /\ LET d == DecodeTask(inv[w].payload) IN
         /\ sub' = [sub EXCEPT ![w].invoked = @ + 1]
         /\ inv' = [inv EXCEPT ![w].decoded = d.ok]
         /\ proc' = [proc EXCEPT ![w].id = d.id]
         /\ pc' = [pc EXCEPT ![w] = "t_processing"]
    /\ UNCHANGED <<started, ctxDone, rows, subscriptions, noise, guard, queue, log, hist>>

\* json.Unmarshal([]byte(notification.Payload), &t)
processTask_Unmarshal(w) ==
    /\ pc[w] = "call"
    /\ channelName(w) = "tasks_channel"
    /\ LET d == DecodeTask(inv[w].payload) IN
         /\ sub' = [sub EXCEPT ![w].invoked = @ + 1]
         /\ inv' = [inv EXCEPT ![w].decoded = d.ok]
         /\ IF d.ok
            THEN /\ proc' = [proc EXCEPT ![w].id = d.id]
                 /\ pc' = [pc EXCEPT ![w] = "t_processing"]
            ELSE Return(w, "unmarshal")
    /\ UNCHANGED <<started, ctxDone, rows, subscriptions, noise, guard, queue, log, hist>>

\* mutant: the error of the first UPDATE is dropped
processTask_SetProcessing_IgnoresError(w) ==
    /\ pc[w] = "t_processing"
    /\ \E o \in ExecOutcomes :
         /\ ExecUpdate(w, "processing", o)
         /\ pc' = [pc EXCEPT ![w] = "t_completed"]
         /\ UNCHANGED proc
    /\ UNCHANGED <<started, ctxDone, subscriptions, noise, guard, sub, queue, log>>

\* UPDATE tasks SET status = 'processing'
processTask_SetProcessing(w) ==
    /\ pc[w] = "t_processing"
    /\ \E o \in ExecOutcomes :
         /\ ExecUpdate(w, "processing", o)
         /\ IF o = "ok"
            THEN /\ pc' = [pc EXCEPT ![w] = "t_completed"]
                 /\ UNCHANGED proc
            ELSE Return(w, "update")
    /\ UNCHANGED <<started, ctxDone, subscriptions, noise, guard, sub, queue, log>>

\* mutant: the second UPDATE writes 'failed'
processTask_SetCompleted_WritesFailed(w) ==
    /\ pc[w] = "t_completed"
    /\ \E o \in ExecOutcomes :
         /\ ExecUpdate(w, "failed", o)
         /\ Return(w, IF o = "ok" THEN "none" ELSE "update")
    /\ UNCHANGED <<started, ctxDone, subscriptions, noise, guard, sub, queue, log>>

\* mutant: a failed 'completed' UPDATE is followed by one writing 'failed'
processTask_SetCompleted_MarksFailed(w) ==
    /\ pc[w] = "t_completed"
    /\ \E o \in ExecOutcomes :
         IF o = "db"
         THEN /\ UpdateStatus("tasks", proc[w].id, "failed")
              /\ inv' = [inv EXCEPT ![w].attempts = @ \o <<"completed", "failed">>,
                                    ![w].writes = Append(@, "failed"),
                                    ![w].storeErr = "db"]
              /\ Return(w, "update")
         ELSE /\ ExecUpdate(w, "completed", o)
              /\ Return(w, IF o = "ok" THEN "none" ELSE "update")
    /\ UNCHANGED <<started, ctxDone, subscriptions, noise, guard, sub, queue, log>>

\* (log the task) UPDATE tasks SET status = 'completed'; return nil
processTask_SetCompleted(w) ==
    /\ pc[w] = "t_completed"
    /\ \E o \in ExecOutcomes :
         /\ ExecUpdate(w, "completed", o)
         /\ Return(w, IF o = "ok" THEN "none" ELSE "update")
    /\ UNCHANGED <<started, ctxDone, subscriptions, noise, guard, sub, queue, log>>

\* ------------------------------------------------------------------------
\* processNotification
\* ------------------------------------------------------------------------
\* json.Unmarshal([]byte(pgnotification.Payload), &n)
processNotification_Unmarshal(w) ==
    /\ pc[w] = "call"
    /\ channelName(w) = "notifications_channel"
    /\ LET d == DecodeNotification(inv[w].payload) IN
         /\ sub' = [sub EXCEPT ![w].invoked = @ + 1]
         /\ inv' = [inv EXCEPT ![w].decoded = d.ok]
         /\ IF d.ok
            THEN /\ proc' = [proc EXCEPT ![w].id = d.id]
                 /\ pc' = [pc EXCEPT ![w] = "n_processing"]
            ELSE Return(w, "unmarshal")
    /\ UNCHANGED <<started, ctxDone, rows, subscriptions, noise, guard, queue, log, hist>>

\* UPDATE notifications SET status = 'processing'
processNotification_SetProcessing(w) ==
    /\ pc[w] = "n_processing"
    /\ \E o \in ExecOutcomes :
         /\ ExecUpdate(w, "processing", o)
         /\ IF o = "ok"
            THEN /\ pc' = [pc EXCEPT ![w] = "n_query"]
                 /\ UNCHANGED proc
            ELSE Return(w, "update")
    /\ UNCHANGED <<started, ctxDone, subscriptions, noise, guard, sub, queue, log>>

\* the orders in which SELECT ... FROM subscriptions (no ORDER BY) may
\* enumerate the table
Enumerations(tbl) ==
    LET n == Len(tbl) IN
    {[i \in 1..n |-> tbl[f[i]]] :
        f \in {g \in [1..n -> 1..n] : \A a, b \in 1..n : a # b => g[a] # g[b]}}

\* outcomes of pool.Query + the rows.Next/rows.Scan loop:
\*   ok    - every row enumerated
\*   query - pool.Query returns err (always so once ctx is done)
\*   scan  - rows.Scan returns err
\*   next  - rows.Next returns false early on a read error; rows.Err() is
\*           not consulted, so the rows read so far are used
ReadOutcomes ==
    IF ctxDone THEN {[kind |-> "query", got |-> <<>>]}
    ELSE {[kind |-> "ok", got |-> e] : e \in Enumerations(subscriptions)}
         \cup {[kind |-> "query", got |-> <<>>], [kind |-> "scan", got |-> <<>>]}
         \cup {[kind |-> "next", got |-> SubSeq(e, 1, j)] :
                 e \in Enumerations(subscriptions), j \in 0..(Len(subscriptions) - 1)}

\* mutant: the read stops after the first row (LIMIT 1)
processNotification_Query_FirstRowOnly(w) ==
    /\ pc[w] = "n_query"
    /\ \E r \in ReadOutcomes :
         /\ inv' = [inv EXCEPT ![w].read = r.kind, ![w].reads = @ + 1,
                               ![w].setAtRead = subscriptions,
                               ![w].storeErr = IF r.kind \in {"query", "scan"}
                                               THEN (IF ctxDone THEN "ctx" ELSE "db")
                                               ELSE @]
         /\ IF r.kind \in {"query", "scan"}
            THEN Return(w, r.kind)
            ELSE /\ proc' = [proc EXCEPT ![w].subs = IF r.got = <<>> THEN <<>> ELSE <<r.got[1]>>,
                                       ![w].idx = 1]
                 /\ pc' = [pc EXCEPT ![w] = IF r.got = <<>> THEN "n_completed" ELSE "n_send"]
    /\ UNCHANGED <<started, ctxDone, rows, subscriptions, noise, guard, sub, queue, log, hist>>

\* SELECT endpoint, auth, p256dh FROM subscriptions; collect the rows
processNotification_Query(w) ==
    /\ pc[w] = "n_query"
    /\ \E r \in ReadOutcomes :
         /\ inv' = [inv EXCEPT ![w].read = r.kind, ![w].reads = @ + 1,
                               ![w].setAtRead = subscriptions,
                               ![w].storeErr = IF r.kind \in {"query", "scan"}
                                               THEN (IF ctxDone THEN "ctx" ELSE "db")
                                               ELSE @]
         /\ IF r.kind \in {"query", "scan"}
            THEN Return(w, r.kind)
            ELSE /\ proc' = [proc EXCEPT ![w].subs = r.got, ![w].idx = 1]
                 /\ pc' = [pc EXCEPT ![w] = IF r.got = <<>> THEN "n_completed" ELSE "n_send"]
    /\ UNCHANGED <<started, ctxDone, rows, subscriptions, noise, guard, sub, queue, log, hist>>

\* outcomes of webpush.SendNotification + io.ReadAll(response.Body):
\*   ok   - response with a success status, body read
\*   soft - response with a non-success status, err == nil, body read
\*   hard - SendNotification returns err
\*   body - response returned, io.ReadAll returns err
SendOutcomes == {"ok", "soft", "hard", "body"}

\* mutant: the loop leaves after the first delivered subscription
processNotification_Send_StopsAfterFirst(w) ==
    /\ pc[w] = "n_send"
    /\ \E o \in SendOutcomes :
         /\ inv' = [inv EXCEPT ![w].calls = Append(@, proc[w].subs[proc[w].idx]),
                               ![w].outs = Append(@, o)]
         /\ IF o = "hard"
            THEN /\ pc' = [pc EXCEPT ![w] = "n_failed"]
                 /\ UNCHANGED proc
            ELSE IF o = "body"
            THEN Return(w, "readbody")
            ELSE /\ proc' = [proc EXCEPT ![w].idx = @ + 1]
                 /\ pc' = [pc EXCEPT ![w] = "n_completed"]
    /\ UNCHANGED <<started, ctxDone, rows, subscriptions, noise, guard, sub, queue, log, hist>>

\* mutant: a send error is skipped over and the loop goes on
processNotification_Send_ContinuesOnError(w) ==
    /\ pc[w] = "n_send"
    /\ \E o \in SendOutcomes :
         /\ inv' = [inv EXCEPT ![w].calls = Append(@, proc[w].subs[proc[w].idx]),
                               ![w].outs = Append(@, o)]
         /\ IF o = "body"
            THEN Return(w, "readbody")
            ELSE /\ proc' = [proc EXCEPT ![w].idx = @ + 1]
                 /\ pc' = [pc EXCEPT ![w] = IF proc[w].idx + 1 > Len(proc[w].subs)
                                            THEN "n_completed" ELSE "n_send"]
    /\ UNCHANGED <<started, ctxDone, rows, subscriptions, noise, guard, sub, queue, log, hist>>

\* mutant: a response body that cannot be read is handled as a send error
processNotification_Send_BodyErrorMarksFailed(w) ==
    /\ pc[w] = "n_send"
    /\ \E o \in SendOutcomes :
         /\ inv' = [inv EXCEPT ![w].calls = Append(@, proc[w].subs[proc[w].idx]),
                               ![w].outs = Append(@, o)]
         /\ IF o \in {"hard", "body"}
            THEN /\ pc' = [pc EXCEPT ![w] = "n_failed"]
                 /\ UNCHANGED proc
            ELSE /\ proc' = [proc EXCEPT ![w].idx = @ + 1]
                 /\ pc' = [pc EXCEPT ![w] = IF proc[w].idx + 1 > Len(proc[w].subs)
                                            THEN "n_completed" ELSE "n_send"]
    /\ UNCHANGED <<started, ctxDone, rows, subscriptions, noise, guard, sub, queue, log, hist>>

\* mutant: the loop ranges over the table as it is now, not over the list
\* that was read
processNotification_Send_RereadsSet(w) ==
    /\ pc[w] = "n_send"
    /\ \E o \in SendOutcomes :
         /\ inv' = [inv EXCEPT ![w].calls = Append(@, proc[w].subs[proc[w].idx]),
                               ![w].outs = Append(@, o)]
         /\ IF o = "hard"
            THEN /\ pc' = [pc EXCEPT ![w] = "n_failed"]
                 /\ UNCHANGED proc
            ELSE IF o = "body"
            THEN Return(w, "readbody")
            ELSE /\ proc' = [proc EXCEPT ![w].idx = @ + 1,
                                         ![w].subs = IF Len(subscriptions) > Len(@)
                                                     THEN @ \o SubSeq(subscriptions, Len(@) + 1,
                                                                      Len(subscriptions))
                                                     ELSE @]
                 /\ pc' = [pc EXCEPT ![w] = IF proc[w].idx + 1 > Len(proc'[w].subs)
                                            THEN "n_completed" ELSE "n_send"]
    /\ UNCHANGED <<started, ctxDone, rows, subscriptions, noise, guard, sub, queue, log, hist>>

\* mutant: the subscription whose send failed is deleted
processNotification_Send_DropsDeadEndpoint(w) ==
    /\ pc[w] = "n_send"
    /\ \E o \in SendOutcomes :
         /\ inv' = [inv EXCEPT ![w].calls = Append(@, proc[w].subs[proc[w].idx]),
                               ![w].outs = Append(@, o)]
         /\ subscriptions' =
              (IF o = "hard"
               THEN SelectSeq(subscriptions, LAMBDA e : e # proc[w].subs[proc[w].idx])
               ELSE subscriptions)
         /\ IF o = "hard"
            THEN /\ pc' = [pc EXCEPT ![w] = "n_failed"]
                 /\ UNCHANGED proc
            ELSE IF o = "body"
            THEN Return(w, "readbody")
            ELSE /\ proc' = [proc EXCEPT ![w].idx = @ + 1]
                 /\ pc' = [pc EXCEPT ![w] = IF proc[w].idx + 1 > Len(proc[w].subs)
                                            THEN "n_completed" ELSE "n_send"]
    /\ UNCHANGED <<started, ctxDone, rows, noise, guard, sub, queue, log, hist>>

\* mutant: a response with a non-success status is handled as a send error
processNotification_Send_SoftIsHard(w) ==
    /\ pc[w] = "n_send"
    /\ \E o \in SendOutcomes :
         /\ inv' = [inv EXCEPT ![w].calls = Append(@, proc[w].subs[proc[w].idx]),
                               ![w].outs = Append(@, o)]
         /\ IF o \in {"hard", "soft"}
            THEN /\ pc' = [pc EXCEPT ![w] = "n_failed"]
                 /\ UNCHANGED proc
            ELSE IF o = "body"
            THEN Return(w, "readbody")
            ELSE /\ proc' = [proc EXCEPT ![w].idx = @ + 1]
                 /\ pc' = [pc EXCEPT ![w] = IF proc[w].idx + 1 > Len(proc[w].subs)
                                            THEN "n_completed" ELSE "n_send"]
    /\ UNCHANGED <<started, ctxDone, rows, subscriptions, noise, guard, sub, queue, log, hist>>

\* one iteration of `for _, sub := range subscriptions` up to the status
\* write; SendNotification takes no context
processNotification_Send(w) ==
    /\ pc[w] = "n_send"
    /\ \E o \in SendOutcomes :
         /\ inv' = [inv EXCEPT ![w].calls = Append(@, proc[w].subs[proc[w].idx]),
                               ![w].outs = Append(@, o)]
         /\ IF o = "hard"
            THEN /\ pc' = [pc EXCEPT ![w] = "n_failed"]
                 /\ UNCHANGED proc
            ELSE IF o = "body"
            THEN Return(w, "readbody")
            ELSE /\ proc' = [proc EXCEPT ![w].idx = @ + 1]
                 /\ pc' = [pc EXCEPT ![w] = IF proc[w].idx + 1 > Len(proc[w].subs)
                                            THEN "n_completed" ELSE "n_send"]
    /\ UNCHANGED <<started, ctxDone, rows, subscriptions, noise, guard, sub, queue, log, hist>>

\* mutant: no return after the 'failed' write, the final UPDATE still runs
processNotification_SetFailed_FallsThrough(w) ==
    /\ pc[w] = "n_failed"
    /\ \E o \in ExecOutcomes :
         /\ ExecUpdate(w, "failed", o)
         /\ IF o = "ok"
            THEN /\ pc' = [pc EXCEPT ![w] = "n_completed"]
                 /\ UNCHANGED proc
            ELSE Return(w, "update")
    /\ UNCHANGED <<started, ctxDone, subscriptions, noise, guard, sub, queue, log>>

\* mutant: the send error is returned whether or not the UPDATE succeeded
processNotification_SetFailed_ReturnsSendError(w) ==
    /\ pc[w] = "n_failed"
    /\ \E o \in ExecOutcomes :
         /\ ExecUpdate(w, "failed", o)
         /\ Return(w, "send")
    /\ UNCHANGED <<started, ctxDone, subscriptions, noise, guard, sub, queue, log>>

\* mutant: the send error is returned without the 'failed' UPDATE
processNotification_SetFailed_SkipsWrite(w) ==
    /\ pc[w] = "n_failed"
    /\ Return(w, "send")
    /\ UNCHANGED <<started, ctxDone, rows, subscriptions, noise, guard, sub, queue, log, hist, inv>>

\* UPDATE notifications SET status = 'failed'; return the send error, or
\* the store error if the write failed
processNotification_SetFailed(w) ==
    /\ pc[w] = "n_failed"
    /\ \E o \in ExecOutcomes :
         /\ ExecUpdate(w, "failed", o)
         /\ Return(w, IF o = "ok" THEN "send" ELSE "update")
    /\ UNCHANGED <<started, ctxDone, subscriptions, noise, guard, sub, queue, log>>

\* UPDATE notifications SET status = 'completed'; return nil
processNotification_SetCompleted(w) ==
    /\ pc[w] = "n_completed"
    /\ \E o \in ExecOutcomes :
         /\ ExecUpdate(w, "completed", o)
         /\ Return(w, IF o = "ok" THEN "none" ELSE "update")
    /\ UNCHANGED <<started, ctxDone, subscriptions, noise, guard, sub, queue, log>>

\* ------------------------------------------------------------------------
\* The environment: HTTP handlers, triggers, foreign NOTIFY, cancellation
\* ------------------------------------------------------------------------
\* a connection receives what is notified on its channel once LISTEN has
\* run on it; a worker that has returned pulls nothing any more
Listening(w, ch) == channelName(w) = ch /\ sub[w].listens > 0 /\ pc[w] # "done"

\* mutant: queue semantics, one listening connection gets the notification
Notify_SingleConsumer(ch, payload) ==
    IF \E w \in Workers : Listening(w, ch)
    THEN \E w \in Workers :
             /\ Listening(w, ch)
             /\ queue' = [queue EXCEPT ![w] = Append(@, payload)]
    ELSE UNCHANGED queue

\* mutant: notifications are kept for subscribers that have not run LISTEN yet
Notify_Durable(ch, payload) ==
    queue' = [w \in Workers |->
                IF w \in started /\ channelName(w) = ch /\ pc[w] # "done"
                THEN Append(queue[w], payload) ELSE queue[w]]

\* pg_notify(ch, payload): broadcast to every listening connection
Notify(ch, payload) ==
    queue' = [w \in Workers |->
                IF Listening(w, ch) THEN Append(queue[w], payload) ELSE queue[w]]

\* AFTER INSERT trigger on tasks
notify_task_created(id) == Notify("tasks_channel", TaskPayload(id))

\* AFTER INSERT trigger on notifications
notify_notification_created(id) == Notify("notifications_channel", NotificationPayload(id))

\* the id of the next row of table t (ids are never reused)
NextId(t) == Cardinality({id \in 1..MaxRows(t) : rows[t][id] # "absent"}) + 1

\* INSERT of a row with status 'pending'
InsertRow(t, id) ==
    /\ rows' = [rows EXCEPT ![t][id] = "pending"]
    /\ hist' = [hist EXCEPT ![t][id] = <<"pending">>]

\* the store traffic followed is that of the tables and channels the
\* started units work on
Served(ch) == \E w \in started : channelName(w) = ch

\* the process is running: no signal has ended it
ProcessUp == \A w \in started : pc[w] # "killed"

\* POST /tasks
createTask ==
    /\ ProcessUp
    /\ Served("tasks_channel")
    /\ NextId("tasks") <= MaxTasks
    /\ InsertRow("tasks", NextId("tasks"))
    /\ notify_task_created(NextId("tasks"))
    /\ UNCHANGED <<started, ctxDone, subscriptions, noise, pc, guard, sub, proc, log, inv>>

\* POST /notifications
createNotification ==
    /\ ProcessUp
    /\ Served("notifications_channel")
    /\ NextId("notifications") <= MaxJobs
    /\ InsertRow("notifications", NextId("notifications"))
    /\ notify_notification_created(NextId("notifications"))
    /\ UNCHANGED <<started, ctxDone, subscriptions, noise, pc, guard, sub, proc, log, inv>>

\* POST /subscriptions: the k-th request registers endpoint k
createSubscription ==
    /\ ProcessUp
    /\ Served("notifications_channel")
    /\ Len(subscriptions) < MaxSubs
    /\ subscriptions' = Append(subscriptions, Len(subscriptions) + 1)
    /\ UNCHANGED <<started, ctxDone, rows, noise, pc, guard, sub, queue, proc, log, hist, inv>>

\* a NOTIFY by another client of the store, with a payload no trigger made
NotifyRaw ==
    /\ \E ch \in Channels :
         /\ Served(ch)
         /\ noise[ch] < MaxNoise
         /\ noise' = [noise EXCEPT ![ch] = @ + 1]
         /\ \E p \in RawPayloads(ch) : Notify(ch, p)
    /\ UNCHANGED <<started, ctxDone, rows, subscriptions, pc, guard, sub, proc, log, hist, inv>>

\* processor positions after the status = 'processing' write and before
\* the terminal write
InFlight == {"t_completed", "n_query", "n_send", "n_failed", "n_completed"}

\* cancel() of run's context
Cancel ==
    /\ ProcessUp
    /\ ~ctxDone
    /\ ctxDone' = TRUE
    /\ inv' = [w \in Workers |->
                 IF pc[w] \in InFlight THEN [inv[w] EXCEPT !.cancelled = TRUE] ELSE inv[w]]
    /\ UNCHANGED <<started, rows, subscriptions, noise, pc, guard, sub, queue, proc, log, hist>>

\* SIGINT or SIGTERM is delivered to the process.  run installs no handler
\* (no signal.Notify) and nothing but its deferred cancel() cancels ctx, so
\* the signal's default disposition applies: the process ends at once and
\* every goroutine still running ends with it, wherever it is.
Signal ==
    /\ \E w \in started : pc[w] \notin {"done", "killed"}
    /\ pc' = [w \in Workers |->
                IF w \in started /\ pc[w] # "done" THEN "killed" ELSE pc[w]]
    /\ UNCHANGED <<started, ctxDone, rows, subscriptions, noise, guard, sub, queue, proc, log, hist, inv>>

\* ------------------------------------------------------------------------
\* Specification
\* ------------------------------------------------------------------------
Next ==
    \/ \E w \in started : waitForConnection_Ping(w)
    \/ \E w \in started : waitForConnection_Cancelled(w)
    \/ \E w \in started : waitForConnection_Interval(w)
    \/ \E w \in started : worker_Acquire(w)
    \/ \E w \in started : worker_Listen(w)
    \/ \E w \in started : worker_Select(w)
    \/ \E w \in started : worker_PullNotification(w)
    \/ \E w \in started : worker_PullCancelled(w)
    \/ \E w \in started : worker_PullError(w)
    \/ \E w \in started : worker_ProcessorReturned(w)
    \/ \E w \in started : processTask_Unmarshal(w)
    \/ \E w \in started : processTask_SetProcessing(w)
    \/ \E w \in started : processTask_SetCompleted(w)
    \/ \E w \in started : processNotification_Unmarshal(w)
    \/ \E w \in started : processNotification_SetProcessing(w)
    \/ \E w \in started : processNotification_Query(w)
    \/ \E w \in started : processNotification_Send(w)
    \/ \E w \in started : processNotification_SetFailed(w)
    \/ \E w \in started : processNotification_SetCompleted(w)
    \/ createTask
    \/ createNotification
    \/ createSubscription
    \/ NotifyRaw
    \/ Cancel

Spec == Init /\ [][Next]_vars

\* the steps of the workers' goroutines
WorkerNext ==
    \/ \E w \in started : waitForConnection_Ping(w)
    \/ \E w \in started : waitForConnection_Cancelled(w)
    \/ \E w \in started : waitForConnection_Interval(w)
    \/ \E w \in started : worker_Acquire(w)
    \/ \E w \in started : worker_Listen(w)
    \/ \E w \in started : worker_Select(w)
    \/ \E w \in started : worker_PullNotification(w)
    \/ \E w \in started : worker_PullCancelled(w)
    \/ \E w \in started : worker_PullError(w)
    \/ \E w \in started : worker_ProcessorReturned(w)
    \/ \E w \in started : processTask_Unmarshal(w)
    \/ \E w \in started : processTask_SetProcessing(w)
    \/ \E w \in started : processTask_SetCompleted(w)
    \/ \E w \in started : processNotification_Unmarshal(w)
    \/ \E w \in started : processNotification_SetProcessing(w)
    \/ \E w \in started : processNotification_Query(w)
    \/ \E w \in started : processNotification_Send(w)
    \/ \E w \in started : processNotification_SetFailed(w)
    \/ \E w \in started : processNotification_SetCompleted(w)

\* no cancellation; the store is reachable and every UPDATE succeeds (the
\* SELECT may fail); every send returns, with any outcome
WritesSucceed ==
    /\ ~ctxDone
    /\ \A w \in started :
         /\ pc[w] # "retry_wait"
         /\ log[w].exitFrom \notin {"acquire", "listen"}
         /\ inv[w].storeErr = "db" => inv[w].read \in {"query", "scan"}

\* the steps of Next under WritesSucceed in which a row is inserted only
\* while the worker of its channel is listening
NextLive ==
    /\ Next
    /\ WritesSucceed'
    /\ rows' # rows =>
         \/ \A t \in Tables, id \in RowIds :
               (rows[t][id] = "absent") <=> (rows'[t][id] = "absent")
         \/ \A w \in started : Listening(w, channelName(w))

\* one execution unit that keeps being scheduled: a goroutine that can
\* take a step takes one (weak fairness on the workers' steps)
SpecLive == Init /\ [][NextLive]_vars /\ WF_vars(WorkerNext /\ WritesSucceed')

\* the notification unit on its own
InitLate == InitStore /\ started = {"notificationWorker"}

\* the steps of Next in which a subscription is registered only once
\* notification 1 has been created
NextLate == Next /\ (subscriptions' # subscriptions => RowExists("notifications", 1))

\* every endpoint is registered after the first notification was created
SpecLate == InitLate /\ [][NextLate]_vars

\* one execution unit, and the process may be sent a termination signal
SpecSignal == Init /\ [][Next \/ Signal]_vars

\* no failure is injected past the guard: the store answers every call
\* (until ctx is cancelled), reads enumerate every row, every send is
\* answered with success, no foreign NOTIFY and no wait error occur
NoFaultAfterGuard ==
    /\ \A ch \in Channels : noise[ch] = 0
    /\ \A w \in started :
         /\ inv[w].storeErr # "db"
         /\ inv[w].read \notin {"scan", "next"}
         /\ \A k \in 1..Len(inv[w].outs) : inv[w].outs[k] = "ok"
         /\ log[w].exitFrom \in {"acquire", "listen"} => ctxDone

\* no failure is injected at all: a Ping fails only once ctx is cancelled
NoFault ==
    /\ NoFaultAfterGuard
    /\ \A w \in started : pc[w] = "retry_wait" => ctxDone

\* the only failure injected is at startup: the Pings of a unit's guard
\* succeed at once or fail every time
PingFaultsOnly ==
    /\ NoFaultAfterGuard
    /\ \A w \in started : guard[w].exit = "ok" => guard[w].pings = 1

\* the steps of Next in which nothing but a Ping fails
NextPingFaults == Next /\ PingFaultsOnly'

\* run with both execution units, startup failures only
SpecRun == InitRun /\ [][NextPingFaults]_vars

\* the steps of Next that inject no failure
NextNoFault == Next /\ NoFault'

\* two subscriber instances on the notification channel, no failure injected
SpecTwo == InitTwo /\ [][NextNoFault]_vars

TypeOK ==
    /\ ctxDone \in BOOLEAN
    /\ \A t \in Tables, id \in RowIds : rows[t][id] \in Status \cup {"absent"}
    /\ Len(subscriptions) <= MaxSubs
    /\ \A w \in Workers : guard[w].i <= maxRetries

\* ------------------------------------------------------------------------
\* Vocabulary of the properties
\* ------------------------------------------------------------------------
TaskUnit(w) == channelName(w) = "tasks_channel"

NotificationUnit(w) == channelName(w) = "notifications_channel"

\* the table and the row the running invocation of w addresses
TableAt(w) == TableOf(channelName(w))

\* w's processor has returned and the dispatch loop has not yet moved on,
\* for an event that decoded to the id of a stored row
ReturnedFor(w) ==
    /\ pc[w] = "ret"
    /\ inv[w].decoded
    /\ RowExists(TableAt(w), proc[w].id)

\* every store call the invocation issued succeeded
StoreOk(w) == inv[w].storeErr = "none"

\* the subscriptions read enumerated every row
ReadOk(w) == inv[w].read = "ok"

IsPermutation(a, b) ==
    /\ Len(a) = Len(b)
    /\ \A e \in Endpoints :
         Cardinality({i \in 1..Len(a) : a[i] = e}) = Cardinality({i \in 1..Len(b) : b[i] = e})

\* ------------------------------------------------------------------------
\* C1. A task event that decodes, with both UPDATEs succeeding: the row is
\* written 'processing' and then 'completed', nothing else and in that
\* order, its history is pending, processing, completed, and the processor
\* returns nil.
\* ------------------------------------------------------------------------
C1_TaskProcessingThenCompleted ==
    \A w \in started :
        (TaskUnit(w) /\ ReturnedFor(w) /\ StoreOk(w)) =>
            /\ inv[w].attempts = <<"processing", "completed">>
            /\ inv[w].writes = <<"processing", "completed">>
            /\ hist["tasks"][proc[w].id] = <<"pending", "processing", "completed">>
            /\ rows["tasks"][proc[w].id] = "completed"
            /\ proc[w].err = "none"

C1_Witness ==
    \E w \in started :
        /\ TaskUnit(w) /\ ReturnedFor(w) /\ StoreOk(w)
        /\ inv[w].writes = <<"processing", "completed">>

\* ------------------------------------------------------------------------
\* C2. A notification event that decodes, the subscriptions read
\* enumerating all N rows (N = 0 included) and every send succeeding:
\* exactly N sends are made, one per subscription, in the order the read
\* enumerated them, the final UPDATE is the 'completed' one, and when the
\* store calls succeed the row ends at completed.
\* ------------------------------------------------------------------------
C2_FanOutAllDelivered ==
    \A w \in started :
        (/\ NotificationUnit(w) /\ ReturnedFor(w) /\ ReadOk(w)
         /\ \A k \in 1..Len(inv[w].outs) : inv[w].outs[k] = "ok") =>
            /\ Len(inv[w].calls) = Len(inv[w].setAtRead)
            /\ inv[w].calls = proc[w].subs
            /\ IsPermutation(inv[w].calls, inv[w].setAtRead)
            /\ inv[w].attempts = <<"processing", "completed">>
            /\ StoreOk(w) =>
                 /\ rows["notifications"][proc[w].id] = "completed"
                 /\ hist["notifications"][proc[w].id] = <<"pending", "processing", "completed">>
                 /\ proc[w].err = "none"

\* two subscriptions, enumerated by the read in the order 2, 1
C2_Witness ==
    \E w \in started :
        /\ NotificationUnit(w) /\ ReturnedFor(w) /\ ReadOk(w) /\ StoreOk(w)
        /\ inv[w].setAtRead = <<1, 2>>
        /\ inv[w].calls = <<2, 1>>
        /\ inv[w].outs = <<"ok", "ok">>
        /\ rows["notifications"][proc[w].id] = "completed"

\* ------------------------------------------------------------------------
\* C3. Sends 1..k-1 return a response and send k returns an error: exactly
\* k sends are made, to the first k subscriptions enumerated, the
\* subscriptions after the k-th get none, 'completed' is never written by
\* the invocation, the 'failed' UPDATE is issued, and when it succeeds the
\* row ends at failed.
\* ------------------------------------------------------------------------
C3_FailFastOnHardError ==
    \A w \in started :
        (/\ NotificationUnit(w) /\ ReturnedFor(w)
         /\ \E k \in 1..Len(inv[w].outs) :
              /\ inv[w].outs[k] = "hard"
              /\ \A j \in 1..(k - 1) : inv[w].outs[j] \in {"ok", "soft"}) =>
            LET k == CHOOSE k \in 1..Len(inv[w].outs) : inv[w].outs[k] = "hard" IN
            /\ Len(inv[w].calls) = k
            /\ inv[w].calls = SubSeq(proc[w].subs, 1, k)
            /\ inv[w].attempts = <<"processing", "failed">>
            /\ proc[w].err # "none"
            /\ StoreOk(w) =>
                 /\ rows["notifications"][proc[w].id] = "failed"
                 /\ hist["notifications"][proc[w].id] = <<"pending", "processing", "failed">>

\* the first of two sends fails: one call, the second subscription skipped
C3_Witness ==
    \E w \in started :
        /\ NotificationUnit(w) /\ ReturnedFor(w) /\ StoreOk(w)
        /\ Len(proc[w].subs) = 2
        /\ inv[w].outs = <<"hard">>
        /\ Len(inv[w].calls) = 1
        /\ rows["notifications"][proc[w].id] = "failed"

\* ------------------------------------------------------------------------
\* C4. A payload that does not decode, on either channel: the processor
\* returns the unmarshal error having issued no store call and no send and
\* changed no row; the dispatch loop then goes back to its select, still
\* running, on the same connection, with its queue untouched.
\* ------------------------------------------------------------------------
C4_MalformedPayloadSkipped ==
    [][\A w \in started :
        /\ (/\ pc[w] = "call" /\ pc'[w] # "call"
            /\ ~Decode(channelName(w), inv[w].payload).ok) =>
               /\ pc'[w] = "ret"
               /\ proc'[w].err = "unmarshal"
               /\ inv'[w].attempts = <<>> /\ inv'[w].reads = 0 /\ inv'[w].calls = <<>>
               /\ rows' = rows /\ hist' = hist /\ subscriptions' = subscriptions
        /\ (pc[w] = "ret" /\ proc[w].err = "unmarshal" /\ pc'[w] # "ret") =>
               /\ inv[w].attempts = <<>> /\ inv[w].reads = 0 /\ inv[w].calls = <<>>
               /\ pc'[w] = "select"
               /\ log'[w].result = "running"
               /\ sub'[w].conn /\ sub'[w].listens = sub[w].listens
               /\ queue'[w] = queue[w]
               /\ rows' = rows /\ hist' = hist]_vars

\* a malformed event was skipped, and the event after it ran to completed
C4_Witness ==
    \E w \in started :
        /\ ReturnedFor(w) /\ proc[w].err = "none"
        /\ sub[w].received = 2
        /\ log[w].procErr = 1
        /\ rows[TableAt(w)][proc[w].id] = "completed"

\* ------------------------------------------------------------------------
\* C5. Whatever the processor returns, the loop goes back to its select,
\* the worker keeps running on its connection and its LISTEN, and nothing
\* is handed to the processor twice: at every moment the invocations equal
\* the notifications received (less the one being handed over).
\* ------------------------------------------------------------------------
C5_OneInvocationPerEvent ==
    [][\A w \in started :
        /\ sub'[w].received = sub'[w].invoked + (IF pc'[w] = "call" THEN 1 ELSE 0)
        /\ (pc[w] = "ret" /\ pc'[w] # "ret") =>
               /\ pc'[w] = "select"
               /\ log'[w].result = "running"
               /\ sub'[w] = sub[w] /\ sub[w].conn /\ sub[w].listens = 1
               /\ queue'[w] = queue[w]
               /\ log'[w].procErr = log[w].procErr + (IF proc[w].err # "none" THEN 1 ELSE 0)]_vars

\* after a processor error the worker is pulling again
C5_Witness ==
    \E w \in started :
        /\ pc[w] = "pull"
        /\ log[w].procErr = 1
        /\ sub[w].received = 1 /\ sub[w].invoked = 1
        /\ log[w].result = "running"

\* ------------------------------------------------------------------------
\* C6. waitForConnection with maxRetries = 5: when the j-th Ping is the
\* first to succeed it returns nil after exactly j Pings and j-1 interval
\* waits; when all 5 Pings fail it returns the error after exactly 5; a
\* 6th Ping is never made.
\* ------------------------------------------------------------------------
C6_GuardAttempts ==
    \A w \in started :
        /\ guard[w].pings <= maxRetries
        /\ guard[w].exit = "ok" =>
             /\ guard[w].pings \in 1..maxRetries
             /\ guard[w].pings = guard[w].i + 1
             /\ guard[w].waits = guard[w].pings - 1
        /\ guard[w].exit = "exhausted" =>
             /\ guard[w].pings = maxRetries
             /\ log[w].result = "err"

\* reachable on the 3rd attempt: 3 Pings, 2 waits
C6_Witness ==
    \E w \in started :
        /\ ~ctxDone
        /\ guard[w].exit = "ok"
        /\ guard[w].pings = 3
        /\ guard[w].waits = 2

\* ------------------------------------------------------------------------
\* C7. ctx is cancelled while the worker is blocked in WaitForNotification
\* with nothing to receive: the pull returns, the worker returns nil,
\* nothing is printed (no wait error, no processor error, no worker error)
\* and no processor invocation is made for that pull.
\* ------------------------------------------------------------------------
C7_CancelledPullExitsCleanly ==
    [][\A w \in started :
        (pc[w] = "pull" /\ ctxDone /\ queue[w] = <<>> /\ pc'[w] # "pull") =>
            /\ pc'[w] = "done"
            /\ log'[w].result = "nil"
            /\ log'[w].workerErr = log[w].workerErr
            /\ log'[w].waitErr = log[w].waitErr
            /\ log'[w].procErr = log[w].procErr
            /\ sub'[w].invoked = sub[w].invoked
            /\ sub'[w].received = sub[w].received]_vars

C7_Witness ==
    \E w \in started :
        /\ pc[w] = "done"
        /\ log[w].exitFrom = "pull"
        /\ log[w].result = "nil"
        /\ log[w].workerErr = 0

\* ------------------------------------------------------------------------
\* C8. ctx is cancelled while waitForConnection waits between attempts:
\* the execution unit ends without an error, no "worker error" is printed.
\* ------------------------------------------------------------------------
C8_CancelledGuardNoWorkerError ==
    \A w \in started :
        guard[w].exit = "cancelled" =>
            /\ log[w].result # "err"
            /\ log[w].workerErr = 0

\* ------------------------------------------------------------------------
\* C9. ctx is cancelled while a processor invocation is between its
\* 'processing' write and its terminal write: the invocation still makes
\* its terminal write, so that (the store itself not failing and every
\* response body being read) the row ends at completed or failed.
\* ------------------------------------------------------------------------
C9_InFlightNotPreempted ==
    \A w \in started :
        (/\ ReturnedFor(w) /\ inv[w].cancelled
         /\ inv[w].storeErr # "db"
         /\ \A k \in 1..Len(inv[w].outs) : inv[w].outs[k] # "body") =>
            rows[TableAt(w)][proc[w].id] \in Terminal

\* ------------------------------------------------------------------------
\* C10. One subscriber per channel, one event per inserted row: the status
\* history of every task and every notification is a prefix of pending,
\* processing, completed or of pending, processing, failed, and the status
\* column holds the last entry.
\* ------------------------------------------------------------------------
StatusPaths ==
    {<<>>, <<"pending">>, <<"pending", "processing">>,
     <<"pending", "processing", "completed">>, <<"pending", "processing", "failed">>}

C10_StatusMonotonic ==
    \A t \in Tables, id \in RowIds :
        /\ hist[t][id] \in StatusPaths
        /\ rows[t][id] = (IF hist[t][id] = <<>> THEN "absent" ELSE hist[t][id][Len(hist[t][id])])

\* a notification that has gone pending, processing, failed
C10_Witness ==
    /\ hist["notifications"][1] = <<"pending", "processing", "failed">>
    /\ \E w \in started : pc[w] = "pull" /\ NotificationUnit(w)

\* ------------------------------------------------------------------------
\* C11. Two subscriber instances on one channel process the same event: in
\* every interleaving of their status writes, once a row has been written
\* completed or failed every later write leaves it at that same status (it
\* is not set back to processing and not moved to the other terminal one).
\* ------------------------------------------------------------------------
C11_RacingWritesMoveForward ==
    \A t \in Tables, id \in RowIds :
        \A i, j \in 1..Len(hist[t][id]) :
            (i < j /\ hist[t][id][i] \in Terminal) => hist[t][id][j] = hist[t][id][i]

\* ------------------------------------------------------------------------
\* C12. Two subscriber instances on the notification channel: the event of
\* a created notification is queued on the connection of every instance
\* that is listening, and each instance that processes it with every send
\* succeeding writes processing and completed itself and calls every
\* endpoint of the set it read exactly once, whatever the other instance
\* has done to the row; with N endpoints read by both that is 2N calls.
\* ------------------------------------------------------------------------
DeliveredAll(w) ==
    /\ NotificationUnit(w) /\ ReturnedFor(w) /\ StoreOk(w)
    /\ inv[w].read \in {"none", "ok"}
    /\ \A k \in 1..Len(inv[w].outs) : inv[w].outs[k] = "ok"

EachInstanceDelivers ==
    /\ \A w \in started :
         DeliveredAll(w) =>
            /\ inv[w].read = "ok"
            /\ inv[w].writes = <<"processing", "completed">>
            /\ IsPermutation(inv[w].calls, inv[w].setAtRead)
    /\ \A w1, w2 \in started :
         (/\ w1 # w2 /\ DeliveredAll(w1) /\ DeliveredAll(w2)
          /\ proc[w1].id = proc[w2].id
          /\ inv[w1].setAtRead = inv[w2].setAtRead) =>
            Len(inv[w1].calls) + Len(inv[w2].calls) = 2 * Len(inv[w1].setAtRead)

C12_BroadcastMultipliesDelivery ==
    [][/\ EachInstanceDelivers'
       /\ \A id \in RowIds :
            (rows["notifications"][id] = "absent" /\ rows'["notifications"][id] # "absent") =>
               \A w \in started :
                  Listening(w, "notifications_channel") =>
                     queue'[w] = Append(queue[w], NotificationPayload(id))]_vars

\* both instances have processed notification 1, two endpoints each
C12_Witness ==
    /\ DeliveredAll("notificationWorker") /\ DeliveredAll("notificationWorker2")
    /\ proc["notificationWorker"].id = 1 /\ proc["notificationWorker2"].id = 1
    /\ Len(inv["notificationWorker"].calls) = 2
    /\ Len(inv["notificationWorker2"].calls) = 2

\* ------------------------------------------------------------------------
\* C13. Within one worker the processor invocations are sequential and in
\* arrival order: notifications join the end of the connection's queue, a
\* pull takes the oldest one and only when no invocation is in progress
\* (every notification received so far has been handed over and its
\* invocation has returned), and the invocation in progress keeps its
\* notification until it returns.
\* ------------------------------------------------------------------------
C13_InvocationsSequentialInOrder ==
    [][\A w \in started :
        /\ sub'[w].received # sub[w].received =>
              /\ sub'[w].received = sub[w].received + 1
              /\ ~inv[w].active /\ proc[w] = NoProc
              /\ sub[w].invoked = sub[w].received
              /\ queue[w] # <<>>
              /\ inv'[w].active /\ inv'[w].payload = Head(queue[w])
              /\ queue'[w] = Tail(queue[w])
        /\ sub'[w].invoked # sub[w].invoked =>
              /\ sub'[w].invoked = sub[w].invoked + 1
              /\ inv[w].active /\ pc[w] = "call"
        /\ (inv[w].active /\ inv'[w].active) => inv'[w].payload = inv[w].payload
        /\ (inv[w].active /\ ~inv'[w].active) => pc[w] = "ret"
        /\ (queue'[w] # queue[w] /\ sub'[w].received = sub[w].received) =>
              \E p \in RawPayloads(channelName(w))
                        \cup {TaskPayload(id) : id \in RowIds}
                        \cup {NotificationPayload(id) : id \in RowIds} :
                  queue'[w] = Append(queue[w], p)]_vars

\* two notifications were queued; the older is being handed over, the
\* newer waits
C13_Witness ==
    \E w \in started :
        /\ pc[w] = "call"
        /\ sub[w].received = 1 /\ sub[w].invoked = 0
        /\ inv[w].payload = NotJson
        /\ queue[w] = <<TaskPayload(1)>>

\* ------------------------------------------------------------------------
\* C14. The guard of one unit gives up after its 5 Pings: that unit alone
\* ends, with its worker error printed; the step changes nothing of the
\* other unit, of ctx or of the rows, the other unit is never ended by it,
\* and an event the other unit processes afterwards is still written
\* processing and then completed.
\* ------------------------------------------------------------------------
OtherUnitKeepsProcessing ==
    \A w, w2 \in started :
        (w2 # w /\ guard[w].exit = "exhausted") =>
            /\ pc[w] = "done" /\ log[w].result = "err" /\ log[w].workerErr = 1
            /\ pc[w2] # "killed"
            /\ (pc[w2] = "done" /\ guard[w2].exit # "exhausted") => ctxDone
            /\ (ReturnedFor(w2) /\ StoreOk(w2)) =>
                  /\ inv[w2].writes = <<"processing", "completed">>
                  /\ rows[TableAt(w2)][proc[w2].id] = "completed"

C14_GuardFailureEndsOneUnit ==
    [][/\ OtherUnitKeepsProcessing'
       /\ \A w \in started :
            (pc[w] # "done" /\ pc'[w] = "done" /\ guard'[w].exit = "exhausted") =>
               /\ ctxDone' = ctxDone /\ rows' = rows /\ subscriptions' = subscriptions
               /\ \A w2 \in started \ {w} :
                    /\ pc'[w2] = pc[w2] /\ guard'[w2] = guard[w2]
                    /\ sub'[w2] = sub[w2] /\ queue'[w2] = queue[w2]
                    /\ proc'[w2] = proc[w2] /\ inv'[w2] = inv[w2]
                    /\ log'[w2] = log[w2]]_vars

\* the notification worker never got through its guard; the task worker
\* has just completed a task
C14_Witness ==
    /\ started = Units
    /\ ~ctxDone
    /\ pc["notificationWorker"] = "done"
    /\ guard["notificationWorker"].exit = "exhausted"
    /\ guard["notificationWorker"].pings = maxRetries
    /\ ReturnedFor("taskWorker")
    /\ rows["tasks"][1] = "completed"

\* ------------------------------------------------------------------------
\* C15. After a shutdown request to the process, ctx is cancelled and every
\* execution unit observes it and returns: no unit is ended by the
\* process's termination while it is still running, a unit that has ended
\* after the request has returned from worker with ctx cancelled.
\* ------------------------------------------------------------------------
C15_ShutdownCancelsAndUnitsReturn ==
    \A w \in started :
        pc[w] = "killed" =>
            /\ ctxDone
            /\ log[w].result \in {"nil", "err"}

\* ------------------------------------------------------------------------
\* C16. A wait error that is not due to cancellation never ends the
\* worker: once one has occurred the worker is still in its dispatch loop
\* on the connection it acquired, with its one LISTEN, its guard run once
\* and no invocation made for the failed pull, and it ends only by
\* cancellation, returning nil.  No run issues LISTEN twice.
\* ------------------------------------------------------------------------
LoopPositions ==
    {"select", "pull", "call", "t_processing", "t_completed", "n_processing",
     "n_query", "n_send", "n_failed", "n_completed", "ret"}

C16_WaitErrorKeepsSubscriber ==
    \A w \in started :
        /\ sub[w].listens <= 1
        /\ (pc[w] = "done" /\ log[w].exitFrom = "pull") =>
             ctxDone /\ log[w].result = "nil"
        /\ log[w].waitErr > 0 =>
             /\ sub[w].listens = 1 /\ sub[w].acquires = 1
             /\ guard[w].exit = "ok" /\ guard[w].pings = guard[w].i + 1
             /\ sub[w].invoked <= sub[w].received
             /\ pc[w] # "done" =>
                  /\ pc[w] \in LoopPositions
                  /\ sub[w].conn /\ log[w].result = "running"
             /\ pc[w] = "done" =>
                  /\ ctxDone
                  /\ log[w].result = "nil" /\ log[w].workerErr = 0
                  /\ log[w].exitFrom \in {"select", "pull"}

\* after a wait error the next pull received a task and it was completed
C16_Witness ==
    \E w \in started :
        /\ log[w].waitErr = 1
        /\ ReturnedFor(w) /\ proc[w].err = "none"
        /\ sub[w].received = 1 /\ sub[w].listens = 1
        /\ guard[w].pings = 1

\* ------------------------------------------------------------------------
\* C17. A worker acquires at most one connection in a run and holds it
\* exactly from the Acquire to its return: whichever way the run ends
\* (guard failure, Acquire failure, LISTEN failure, cancellation), the
\* connection, if one was acquired, has been released once.
\* ------------------------------------------------------------------------
C17_OneConnectionReleasedOnExit ==
    \A w \in started :
        /\ sub[w].acquires <= 1
        /\ sub[w].releases <= sub[w].acquires
        /\ sub[w].conn <=> (sub[w].acquires = 1 /\ sub[w].releases = 0)
        /\ sub[w].conn <=> pc[w] \in LoopPositions \cup {"listen"}
        /\ pc[w] = "done" =>
             /\ ~sub[w].conn
             /\ sub[w].releases = sub[w].acquires
             /\ sub[w].acquires = (IF log[w].exitFrom \in {"retry_wait", "acquire"} THEN 0 ELSE 1)

\* LISTEN failed on the acquired connection: released on the way out
C17_Witness ==
    \E w \in started :
        /\ pc[w] = "done"
        /\ log[w].exitFrom = "listen"
        /\ ~ctxDone
        /\ sub[w].acquires = 1 /\ sub[w].releases = 1 /\ ~sub[w].conn

\* ------------------------------------------------------------------------
\* C18. The endpoints a notification is delivered to are those in the
\* subscriptions table when the processor reads it, after its processing
\* write, not those present when the notification was created: the list
\* the read returns is an enumeration of the table as it is at that step,
\* and every endpoint of it is called as long as no earlier send has ended
\* the loop (error from the send or from reading its response).
\* ------------------------------------------------------------------------
CalledWhileLoopRuns ==
    \A w \in started :
        (NotificationUnit(w) /\ ReturnedFor(w) /\ ReadOk(w)) =>
            /\ IsPermutation(proc[w].subs, inv[w].setAtRead)
            /\ \A k \in 1..Len(proc[w].subs) :
                 (\A j \in 1..(k - 1) :
                      j <= Len(inv[w].outs) /\ inv[w].outs[j] \in {"ok", "soft"}) =>
                    /\ k <= Len(inv[w].calls)
                    /\ inv[w].calls[k] = proc[w].subs[k]

C18_EndpointsAsOfRead ==
    [][/\ CalledWhileLoopRuns'
       /\ \A w \in started :
            (pc[w] = "n_query" /\ pc'[w] # "n_query" /\ inv'[w].read = "ok") =>
               /\ inv[w].writes = <<"processing">>
               /\ inv'[w].reads = 1
               /\ IsPermutation(proc'[w].subs, subscriptions)
               /\ subscriptions' = subscriptions]_vars

\* both endpoints were registered after notification 1 was created and
\* before it was read: both were called
C18_Witness ==
    \E w \in started :
        /\ ReturnedFor(w) /\ ReadOk(w) /\ proc[w].id = 1
        /\ inv[w].setAtRead = <<1, 2>>
        /\ IsPermutation(inv[w].calls, <<1, 2>>)
        /\ inv[w].outs[1] = "soft"

\* ------------------------------------------------------------------------
\* C19. The read of the subscriptions fails, when the query is issued or
\* while its rows are being enumerated: the processor returns an error,
\* makes no send, attempts neither the completed nor the failed write, and
\* the row stays at processing.
\* ------------------------------------------------------------------------
C19_ReadFailureStopsDelivery ==
    \A w \in started :
        (/\ NotificationUnit(w) /\ ReturnedFor(w)
         /\ inv[w].read \in {"query", "scan", "next"}) =>
            /\ proc[w].err # "none"
            /\ inv[w].calls = <<>>
            /\ inv[w].attempts = <<"processing">>
            /\ rows["notifications"][proc[w].id] = "processing"

\* ------------------------------------------------------------------------
\* C20. processTask returns a failed UPDATE to the dispatch loop and
\* nothing retries it: when the processing write fails the completed write
\* is not attempted and the row is left at pending; when the completed
\* write fails the row is left at processing; and a task left short of
\* completed that no worker has in hand or in its queue keeps its status
\* in every later step.
\* ------------------------------------------------------------------------
TaskWriteFailureReturned ==
    \A w \in started :
        (TaskUnit(w) /\ ReturnedFor(w) /\ ~StoreOk(w)) =>
            /\ proc[w].err = "update"
            /\ \/ /\ inv[w].writes = <<>>
                  /\ inv[w].attempts = <<"processing">>
                  /\ rows["tasks"][proc[w].id] = "pending"
               \/ /\ inv[w].writes = <<"processing">>
                  /\ inv[w].attempts = <<"processing", "completed">>
                  /\ rows["tasks"][proc[w].id] = "processing"

\* no worker is processing task id's event or has it queued
TaskAbandoned(id) ==
    /\ RowExists("tasks", id)
    /\ rows["tasks"][id] \in {"pending", "processing"}
    /\ \A w \in started :
         TaskUnit(w) =>
            /\ \A k \in 1..Len(queue[w]) : queue[w][k] # TaskPayload(id)
            /\ ~(/\ inv[w].active /\ inv[w].payload = TaskPayload(id)
                 /\ pc[w] \in {"call", "t_processing", "t_completed"})

C20_TaskWriteFailureNotRetried ==
    [][/\ TaskWriteFailureReturned'
       /\ \A id \in 1..MaxTasks :
            TaskAbandoned(id) =>
               /\ TaskAbandoned(id)'
               /\ rows'["tasks"][id] = rows["tasks"][id]]_vars

\* the completed write failed on a reachable store: the task is left at
\* processing and the worker has gone back to pulling
C20_Witness ==
    \E w \in started :
        /\ TaskUnit(w) /\ pc[w] = "pull" /\ ~ctxDone
        /\ log[w].procErr = 1
        /\ sub[w].invoked = 1
        /\ hist["tasks"][1] = <<"pending", "processing">>
        /\ TaskAbandoned(1)

\* ------------------------------------------------------------------------
\* C21. A send answered with a non-success status and no error does not
\* stop the loop and does not fail the notification: when every send of an
\* invocation returned a response whose body was read, at least one of
\* them a non-success one, every enumerated endpoint was called, 'failed'
\* was never written, the final UPDATE is the 'completed' one, and when the
\* store calls succeed the row ends at completed and nil is returned.
\* ------------------------------------------------------------------------
C21_SoftFailureTolerated ==
    \A w \in started :
        (/\ NotificationUnit(w) /\ ReturnedFor(w)
         /\ \E k \in 1..Len(inv[w].outs) : inv[w].outs[k] = "soft"
         /\ \A k \in 1..Len(inv[w].outs) : inv[w].outs[k] \in {"ok", "soft"}) =>
            /\ inv[w].calls = proc[w].subs
            /\ Len(inv[w].outs) = Len(proc[w].subs)
            /\ inv[w].attempts = <<"processing", "completed">>
            /\ StoreOk(w) =>
                 /\ rows["notifications"][proc[w].id] = "completed"
                 /\ proc[w].err = "none"

\* the first endpoint answered with a non-success status, the second was
\* still called, the notification is completed
C21_Witness ==
    \E w \in started :
        /\ NotificationUnit(w) /\ ReturnedFor(w) /\ StoreOk(w)
        /\ inv[w].outs = <<"soft", "ok">>
        /\ Len(inv[w].calls) = 2
        /\ rows["notifications"][proc[w].id] = "completed"

\* ------------------------------------------------------------------------
\* C23. A row is inserted while the worker of its channel has not yet run
\* LISTEN (it is still in its guard, say): the trigger's notification is
\* not queued for that worker, then or later, no invocation is ever made
\* for the row, and the row keeps the status pending in every later step.
\* ------------------------------------------------------------------------
EventPayload(w, id) == IF TaskUnit(w) THEN TaskPayload(id) ELSE NotificationPayload(id)

\* row id is pending, untouched, and w neither has its event queued nor
\* is processing it
EventMissed(w, id) ==
    /\ RowExists(TableAt(w), id)
    /\ hist[TableAt(w)][id] = <<"pending">>
    /\ \A k \in 1..Len(queue[w]) : queue[w][k] # EventPayload(w, id)
    /\ ~(inv[w].active /\ inv[w].payload = EventPayload(w, id))

C23_EventBeforeListenIsMissed ==
    [][\A w \in started : \A id \in 1..MaxRows(TableAt(w)) :
        /\ (/\ rows[TableAt(w)][id] = "absent" /\ rows'[TableAt(w)][id] # "absent"
            /\ ~Listening(w, channelName(w))) =>
               /\ queue'[w] = queue[w]
               /\ EventMissed(w, id)'
        /\ EventMissed(w, id) =>
               /\ EventMissed(w, id)'
               /\ rows'[TableAt(w)][id] = "pending"]_vars

\* the worker got through its guard on the second Ping and is pulling with
\* nothing queued and nothing received; the row inserted meanwhile is
\* pending
C23_Witness ==
    \E w \in started :
        /\ pc[w] = "pull" /\ ~ctxDone
        /\ guard[w].pings = 2
        /\ sub[w].received = 0 /\ queue[w] = <<>>
        /\ EventMissed(w, 1)

\* ------------------------------------------------------------------------
\* C24. A step of a processor invocation changes nothing in the store but
\* the status of the row of its own table whose id was decoded from the
\* event: every other row of either table is left as it was, no row is
\* inserted or removed, and the subscriptions table is left as it was.
\* ------------------------------------------------------------------------
ProcessorPositions ==
    {"call", "t_processing", "t_completed", "n_processing", "n_query",
     "n_send", "n_failed", "n_completed"}

\* the step is one of w's processor
ProcessorStep(w) ==
    /\ pc[w] \in ProcessorPositions
    /\ <<pc[w], inv[w].attempts, inv[w].reads, inv[w].calls>>
         # <<pc'[w], inv'[w].attempts, inv'[w].reads, inv'[w].calls>>

C25_TaskNeverFailed ==
    /\ \A id \in RowIds :
         /\ rows["tasks"][id] \in {"absent", "pending", "processing", "completed"}
         /\ \A k \in 1..Len(hist["tasks"][id]) : hist["tasks"][id][k] # "failed"
    /\ \A w \in started :
         TaskUnit(w) =>
            /\ \A k \in 1..Len(inv[w].attempts) : inv[w].attempts[k] # "failed"
            /\ (ReturnedFor(w) /\ proc[w].err # "none") =>
                  rows["tasks"][proc[w].id] \in {"pending", "processing"}

\* the 'completed' UPDATE failed: error returned, task left at processing
C25_Witness ==
    \E w \in started :
        /\ TaskUnit(w) /\ ReturnedFor(w)
        /\ proc[w].err = "update"
        /\ inv[w].attempts = <<"processing", "completed">>
        /\ rows["tasks"][proc[w].id] = "processing"

\* ------------------------------------------------------------------------
\* C26. The k-th send returns an error and the 'failed' UPDATE that
\* follows fails too: the processor returns the store error, the
\* subscriptions after the k-th get no send, the 'completed' UPDATE is not
\* attempted and the row is left at processing.
\* ------------------------------------------------------------------------
C26_FailedWriteFails ==
    \A w \in started :
        (/\ NotificationUnit(w) /\ ReturnedFor(w)
         /\ Len(inv[w].outs) > 0 /\ inv[w].outs[Len(inv[w].outs)] = "hard"
         /\ ~StoreOk(w)) =>
            /\ proc[w].err = "update"
            /\ inv[w].attempts = <<"processing", "failed">>
            /\ inv[w].writes = <<"processing">>
            /\ inv[w].calls = SubSeq(proc[w].subs, 1, Len(inv[w].outs))
            /\ rows["notifications"][proc[w].id] = "processing"
            /\ hist["notifications"][proc[w].id] = <<"pending", "processing">>

\* the first of two sends failed and the store was unreachable for the
\* 'failed' write, without any cancellation
C26_Witness ==
    \E w \in started :
        /\ NotificationUnit(w) /\ ReturnedFor(w) /\ ~ctxDone
        /\ inv[w].outs = <<"hard">> /\ Len(proc[w].subs) = 2
        /\ inv[w].storeErr = "db"
        /\ proc[w].err = "update"
        /\ rows["notifications"][proc[w].id] = "processing"

\* ------------------------------------------------------------------------
\* C27. The k-th send returns a response whose body cannot be read: the
\* processor returns that error having attempted neither the 'failed' nor
\* the 'completed' UPDATE, the row is left at processing, the first k
\* enumerated subscriptions have had their send and those after the k-th
\* get none.
\* ------------------------------------------------------------------------
C27_BodyReadErrorLeavesProcessing ==
    \A w \in started :
        (/\ NotificationUnit(w) /\ ReturnedFor(w)
         /\ \E k \in 1..Len(inv[w].outs) : inv[w].outs[k] = "body") =>
            LET k == CHOOSE k \in 1..Len(inv[w].outs) : inv[w].outs[k] = "body" IN
            /\ proc[w].err = "readbody"
            /\ Len(inv[w].outs) = k
            /\ inv[w].calls = SubSeq(proc[w].subs, 1, k)
            /\ \A j \in 1..(k - 1) : inv[w].outs[j] \in {"ok", "soft"}
            /\ inv[w].attempts = <<"processing">>
            /\ rows["notifications"][proc[w].id] = "processing"
            /\ hist["notifications"][proc[w].id] = <<"pending", "processing">>

\* the body of the first response cannot be read: the second subscription
\* gets no send
C27_Witness ==
    \E w \in started :
        /\ NotificationUnit(w) /\ ReturnedFor(w)
        /\ Len(proc[w].subs) = 2
        /\ inv[w].outs = <<"body">>
        /\ Len(inv[w].calls) = 1
        /\ rows["notifications"][proc[w].id] = "processing"

\* ------------------------------------------------------------------------
\* C28. An invocation reads the subscriptions table at most once, and
\* exactly once when it gets as far as sending; its sends go down the list
\* that read returned, so they never outnumber the table as it was at the
\* read, and a subscription registered after the read gets no send from
\* that invocation.
\* ------------------------------------------------------------------------
C28_LateEndpointNotCalled ==
    \A w \in started :
        NotificationUnit(w) =>
            /\ inv[w].reads <= 1
            /\ Len(inv[w].calls) > 0 => inv[w].reads = 1
            /\ pc[w] \in {"n_send", "n_failed", "n_completed"} => inv[w].reads = 1
            /\ Len(inv[w].calls) <= Len(inv[w].setAtRead)
            /\ Len(inv[w].calls) <= Len(proc[w].subs)
            /\ inv[w].calls = SubSeq(proc[w].subs, 1, Len(inv[w].calls))
            /\ \A k \in 1..Len(inv[w].calls) :
                 \E j \in 1..Len(inv[w].setAtRead) : inv[w].setAtRead[j] = inv[w].calls[k]

\* endpoint 2 was registered after the read: the invocation has returned
\* having called endpoint 1 only
C28_Witness ==
    \E w \in started :
        /\ NotificationUnit(w) /\ ReturnedFor(w) /\ ReadOk(w)
        /\ inv[w].setAtRead = <<1>>
        /\ subscriptions = <<1, 2>>
        /\ inv[w].calls = <<1>>
        /\ proc[w].err = "none"

\* ------------------------------------------------------------------------
\* C22. The worker keeps being scheduled, it is listening when the row is
\* inserted, ctx is not cancelled, every UPDATE succeeds and every send
\* returns: every task inserted is eventually completed; every
\* notification inserted is eventually completed or failed (as stated), or
\* (as amended) is completed or failed unless its invocation returned
\* because the subscriptions read failed or a response body could not be
\* read.
\* ------------------------------------------------------------------------
\* the invocation for notification id has returned on a failed read of the
\* subscriptions or of a response body
DeliveryAbandoned(id) ==
    \E w \in started :
        /\ NotificationUnit(w) /\ ReturnedFor(w) /\ proc[w].id = id
        /\ proc[w].err \in {"query", "scan", "readbody"}

C22_EveryRowReachesTerminal ==
    /\ \A id \in 1..MaxTasks :
         (rows["tasks"][id] = "pending") ~> (rows["tasks"][id] = "completed")
    /\ \A id \in 1..MaxJobs :
         (rows["notifications"][id] = "pending") ~> (rows["notifications"][id] \in Terminal)

C22_EveryRowReachesTerminalOrAbandoned ==
    /\ \A id \in 1..MaxTasks :
         (rows["tasks"][id] = "pending") ~> (rows["tasks"][id] = "completed")
    /\ \A id \in 1..MaxJobs :
         (rows["notifications"][id] = "pending") ~>
             (rows["notifications"][id] \in Terminal \/ DeliveryAbandoned(id))

\* a row inserted while the worker was listening has been processed to a
\* terminal status and the worker is waiting for the next notification
C22_Witness ==
    \E w \in started :
        /\ pc[w] = "pull" /\ queue[w] = <<>>
        /\ sub[w].received = 1 /\ sub[w].invoked = 1
        /\ log[w].procErr <= 1
        /\ rows[TableAt(w)][1] \in Terminal

====
